---- MODULE Spec2Model ----
(***************************************************************************)
(* PTY terminal core of the agent API server:                              *)
(*   backend/core/pty_session.py   PTYSession (pump loop, buffer, close)   *)
(*   backend/core/pty_manager.py   PTYManager (registry, per-user cap)     *)
(*   backend/api/terminal.py       HTTP poll / input / resize / SSE        *)
(*   backend/grpc_server/terminal_service.py  gRPC resize / Stream         *)
(*                                                                         *)
(* The server runs on one asyncio event loop: the code between two awaits  *)
(* of a coroutine runs atomically, so every action below is one such       *)
(* block.  One session (id Sid) is modelled in full; the registry model    *)
(* holds any number of sessions by id.                                     *)
(***************************************************************************)
EXTENDS Integers, Sequences, FiniteSets, TLC

\* ------------------------------------------------------------------ bounds
MaxSeq == 3            \* chunks the process may produce in one run
MaxOutputLines == 2    \* max_output_lines of the modelled session (deque maxlen)
MaxSessionsPerUser == 2 \* max_sessions_per_user of the modelled registry
MaxCreated == 2        \* sessions created in one run of the registry with its reaper
MaxNow == 2            \* ticks of the wall clock in one run
SessionTimeout == 1    \* session_timeout_minutes of the modelled registry, in ticks
MaxCalls == 2          \* input and resize calls issued in one run
MaxStarts == 1         \* start() calls made on a session after its creation

\* ------------------------------------------------------- program constants
ReadSize == 4096       \* read_nonblocking(size=4096)
ClosePolls == 10       \* for _ in range(10) in close()
Sentinel == -1         \* exit_code when the session has no process handle

\* Optional[int]: None is the empty set, a value v is {v}.
None == {}
Some(v) == {v}

\* what the shell prints: the character "x" is one byte in UTF-8, "U" is two
Chunks == {<<"x">>, <<"U", "x">>}
ExitCodes == {0, 7}
Cursors == (0 - 1)..(MaxSeq + 1)

Min(a, b) == IF a < b THEN a ELSE b
Max(a, b) == IF a > b THEN a ELSE b

\* ------------------------------------------------ str.encode / bytes.decode
\* output.encode('utf-8'): bytes are small integers; "U" encodes to lead
\* byte 2 and continuation byte 3, "x" to byte 1, the replacement character
\* "?" (U+FFFD) to 4 5.
EncodeChar(c) ==
  IF c = "x" THEN <<1>> ELSE IF c = "U" THEN <<2, 3>> ELSE <<4, 5>>

RECURSIVE Encode(_)
Encode(s) == IF s = <<>> THEN <<>> ELSE EncodeChar(Head(s)) \o Encode(Tail(s))

\* bytes.decode('utf-8', errors='replace'): a malformed byte becomes "?"
RECURSIVE Decode(_)
Decode(b) ==
  IF b = <<>> THEN <<>>
  ELSE IF b[1] = 1 THEN <<"x">> \o Decode(Tail(b))
  ELSE IF b[1] = 2 /\ Len(b) >= 2 /\ b[2] = 3 THEN <<"U">> \o Decode(Tail(Tail(b)))
  ELSE IF b[1] = 4 /\ Len(b) >= 2 /\ b[2] = 5 THEN <<"?">> \o Decode(Tail(Tail(b)))
  ELSE <<"?">> \o Decode(Tail(b))

\* b''.join(list_of_bytes)
RECURSIVE Join(_)
Join(ss) == IF ss = <<>> THEN <<>> ELSE Head(ss) \o Join(Tail(ss))

\* list(buf)[start_idx:]  (start_idx >= 0, 0-based)
SliceFrom(buf, start_idx) ==
  IF start_idx >= Len(buf) THEN <<>> ELSE SubSeq(buf, start_idx + 1, Len(buf))

\* faulty variant: the deque grows without bound
DequeAppendUnbounded(buf, x, maxlen) == buf \o <<x>>

\* deque(maxlen=n).append(x): the oldest entry is dropped once full
DequeAppend(buf, x, maxlen) ==
  IF maxlen = 0 THEN <<>>
  ELSE IF Len(buf) >= maxlen THEN Tail(buf) \o <<x>>
  ELSE buf \o <<x>>

VARIABLES
  \* ---- PTYSession fields of session Sid
  running,        \* _running
  output_buffer,  \* deque of bytes
  output_seq,
  exit_code,      \* Optional[int]
  dims,           \* <<rows, cols>>
  last_activity,
  \* ---- the pexpect process handle and the OS process behind it
  procState,      \* "none" | "running" | "closing" (tty closed, not yet waitable) | "dead"
  procStatus,     \* exit status of the OS process; None when killed by a signal
  terminated,     \* pexpect has reaped the process (isalive() saw it dead)
  signalled,      \* the strongest signal close() has sent: "no" | "graceful" (SIGHUP, SIGINT) | "forced" (SIGKILL)
  pending,        \* characters written to the pty and not yet read
  \* ---- tasks
  pumpPc,         \* _read_output_loop: "none" | "check" | "read" | "retry" | "done" | "cancelled"
  closePc,        \* close() per caller: "idle" | "awaitTask" | "terminating" | "forcing" | "poll" | "killing" | "done"
  closePolls,     \* iterations of the poll loop of close() done, per caller
  \* ---- registry
  sessions,       \* PTYManager.sessions: the ids in the registry
  owner,          \* id -> user_id the create call carried (history)
  now,            \* wall clock
  inp,            \* input and resize calls: issued, in the executor, applied to the pty
  starts,         \* start() calls made on the session after the one of create_session
  \* ---- registry-level state (sessions held by id only)
  sess,           \* id -> what the registry reads of the session and the calls made on it
  calls,          \* PTYManager.close_session calls in flight, per adapter
  reaper,         \* the _cleanup_loop task
  mgr,            \* PTYManager._running and the stop() call
  \* ---- clients
  allOut,         \* history: every chunk appended, in order
  rdCursor, rdText, rdDone, rdLost,   \* a poll client chaining cursors from 0
  ssePc, sseSeq, sseText, sseFinal,   \* one SSE subscriber; ssePc: "off" | "loop" | "done" | "gone"
  sseLive,        \* the subscriber attached while is_alive() held (history)
  polls,          \* the last two poll responses, oldest first
  last            \* the last adapter call and its response

vars == <<running, output_buffer, output_seq, exit_code, dims, last_activity,
          procState, procStatus, terminated, signalled, pending,
          pumpPc, closePc, closePolls, sessions, owner, now, inp, starts, sess, calls, reaper, mgr,
          allOut, rdCursor, rdText, rdDone, rdLost,
          ssePc, sseSeq, sseText, sseFinal, sseLive, polls, last>>

sessionVars == <<running, output_buffer, output_seq, exit_code, dims, last_activity>>
procVars == <<procState, procStatus, terminated, signalled, pending>>
taskVars == <<pumpPc, closePc, closePolls>>
regVars == <<sessions, owner>>
mgrVars == <<sess, calls, reaper, mgr>>
readerVars == <<rdCursor, rdText, rdDone, rdLost>>
sseVars == <<ssePc, sseSeq, sseText, sseFinal, sseLive>>


Sid == <<"a", "b">>     \* session_id of the session modelled in full
Closers == {"close_session", "stop"}

\* ---------------------------------------------------------- PTYSession reads
\* self.process.exitstatus: None until pexpect has reaped the process
ExitStatus == IF terminated THEN procStatus ELSE None

\* self.process.isalive() as the OS answers it (the caller also reaps)
ProcIsAlive == procState \in {"running", "closing"}

\* PTYSession.is_alive()
is_alive == running /\ procState # "none" /\ ProcIsAlive

\* Python's list[i:] for any integer i: a negative i counts from the end
PySliceFrom(buf, i) ==
  SliceFrom(buf, IF i < 0 THEN Max(Len(buf) + i, 0) ELSE i)

\* faulty variant: start_idx is one too small, so the last chunk read is sent again
get_output_since_dup(seq) ==
  LET seq1 == IF seq < output_seq - Len(output_buffer)
              THEN output_seq - Len(output_buffer) ELSE seq
      start_idx == Max(0, Len(output_buffer) - (output_seq - seq1) - 1)
  IN <<Decode(Join(SliceFrom(output_buffer, start_idx))), output_seq>>

\* faulty variant: the bytes are decoded one byte per character (latin-1 for utf-8)
get_output_since_latin(seq) ==
  LET seq1 == IF seq < output_seq - Len(output_buffer)
              THEN output_seq - Len(output_buffer) ELSE seq
      start_idx == Max(0, Len(output_buffer) - (output_seq - seq1))
      bytes == Join(SliceFrom(output_buffer, start_idx))
  IN <<[i \in 1..Len(bytes) |-> IF bytes[i] = 1 THEN "x" ELSE "?"], output_seq>>

\* faulty variant: neither the cursor nor start_idx is clamped
get_output_since_noclamp(seq) ==
  LET start_idx == Len(output_buffer) - (output_seq - seq)
  IN <<Decode(Join(PySliceFrom(output_buffer, start_idx))), output_seq>>

\* PTYSession.get_output_since(seq) -> (output_str, self.output_seq)
get_output_since(seq) ==
  LET seq1 == IF seq < output_seq - Len(output_buffer)
              THEN output_seq - Len(output_buffer) ELSE seq
      start_idx == Max(0, Len(output_buffer) - (output_seq - seq1))
  IN <<Decode(Join(SliceFrom(output_buffer, start_idx))), output_seq>>

\* faulty variant: the lookup also finds a session that was removed
FoundEver == Sid \in DOMAIN owner

\* PTYManager.get_session(session_id) is not None, for the modelled session
Found == Sid \in sessions

\* faulty variant: the session is looked up and left in the dict while it is torn down
AfterGet(id) == sessions

\* line 77: self.sessions.pop(session_id, None), the dict after it
AfterPop(id) == sessions \ {id}

\* ------------------------------------------------------------ the OS process
\* the shell prints a chunk (once the pump has read the one before)
ProcWrite(ch) ==
  /\ procState = "running"
  /\ pending = <<>>
  /\ output_seq < MaxSeq
  /\ pending' = pending \o ch
  /\ UNCHANGED <<sessionVars, procState, procStatus, terminated, signalled,
                 taskVars, regVars, now, inp, starts, mgrVars, allOut, readerVars, sseVars, polls, last>>

\* the shell exits on its own: its tty closes first, it becomes waitable later
ProcExit(c) ==
  /\ procState = "running"
  /\ procState' = "closing"
  /\ procStatus' = Some(c)
  /\ UNCHANGED <<sessionVars, terminated, signalled, pending,
                 taskVars, regVars, now, inp, starts, mgrVars, allOut, readerVars, sseVars, polls, last>>

\* a signal sent by terminate()/kill() ends the shell: no exit status
ProcKilled ==
  /\ procState = "running"
  /\ signalled # "no"
  /\ procState' = "closing"
  /\ procStatus' = None
  /\ UNCHANGED <<sessionVars, terminated, signalled, pending,
                 taskVars, regVars, now, inp, starts, mgrVars, allOut, readerVars, sseVars, polls, last>>

\* a signal from outside the server (kill -9, the OOM killer) ends the shell:
\* no exit status
ProcSignalled ==
  /\ procState = "running"
  /\ procState' = "closing"
  /\ procStatus' = None
  /\ UNCHANGED <<sessionVars, terminated, signalled, pending,
                 taskVars, regVars, now, inp, starts, mgrVars, allOut, readerVars, sseVars, polls, last>>

\* the exiting process becomes a zombie: waitpid() now reports it
ProcDie ==
  /\ procState = "closing"
  /\ procState' = "dead"
  /\ UNCHANGED <<sessionVars, procStatus, terminated, signalled, pending,
                 taskVars, regVars, now, inp, starts, mgrVars, allOut, readerVars, sseVars, polls, last>>

\* ------------------------------------------------- PTYSession._read_output_loop
\* faulty variant: the loop ends without recording the exit status
PumpExitNoCode ==
  /\ pumpPc' = "done"
  /\ terminated' = (terminated \/ procState = "dead")
  /\ running' = (running /\ procState # "dead")
  /\ UNCHANGED exit_code

\* faulty variant: the exit status is recorded and _running stays set
PumpExitStillRunning ==
  /\ pumpPc' = "done"
  /\ terminated' = (terminated \/ procState = "dead")
  /\ IF procState = "dead"
     THEN exit_code' = procStatus /\ UNCHANGED running
     ELSE UNCHANGED <<exit_code, running>>

\* lines 83-86: after the loop
PumpExit ==
  /\ pumpPc' = "done"
  /\ terminated' = (terminated \/ procState = "dead")
  /\ IF procState = "dead"
     THEN exit_code' = procStatus /\ running' = FALSE
     ELSE UNCHANGED <<exit_code, running>>

\* line 63: while self._running and self.process.isalive()
PumpLoopTop ==
  IF running /\ ProcIsAlive
  THEN pumpPc' = "read" /\ UNCHANGED <<running, exit_code, terminated>>
  ELSE PumpExit

\* the task's first step, or the wake-up from asyncio.sleep after a TIMEOUT
\* (line 75) or after another exception (line 81)
PumpCheck ==
  /\ pumpPc \in {"check", "retry"}
  /\ PumpLoopTop
  /\ UNCHANGED <<output_buffer, output_seq, dims, last_activity,
                 procState, procStatus, signalled, pending,
                 closePc, closePolls, regVars, now, inp, starts, mgrVars, allOut, readerVars, sseVars,
                 polls, last>>

\* faulty variant: the sequence counts characters, not chunks
AppendSeqChars(seq, output) == seq + Len(output)

\* line 72: self.output_seq += 1 after appending output
AppendSeq(seq, output) == seq + 1

\* the chunk position the next append evicts, or -1 when it evicts nothing
EvictedBy(buf, seq, maxlen) ==
  IF maxlen = 0 THEN seq
  ELSE IF Len(buf) >= maxlen THEN seq - Len(buf)
  ELSE 0 - 1

\* lines 69-73: read_nonblocking returned data
PumpData ==
  /\ pumpPc = "read"
  /\ pending # <<>>
  /\ LET output == SubSeq(pending, 1, Min(ReadSize, Len(pending)))
         ev == EvictedBy(output_buffer, output_seq, MaxOutputLines)
     IN /\ pending' = SubSeq(pending, Len(output) + 1, Len(pending))
        /\ output_buffer' = DequeAppend(output_buffer, Encode(output), MaxOutputLines)
        /\ output_seq' = AppendSeq(output_seq, output)
        /\ last_activity' = now
        /\ allOut' = Append(allOut, output)
        /\ rdLost' = (rdLost \/ (ev >= 0 /\ rdCursor <= ev))
  /\ PumpLoopTop
  /\ UNCHANGED <<dims, procState, procStatus, signalled,
                 closePc, closePolls, regVars, now, inp, starts, mgrVars, rdCursor, rdText, rdDone,
                 ssePc, sseSeq, sseText, sseFinal, sseLive, polls, last>>

\* line 74: pexpect.TIMEOUT, then await asyncio.sleep(0.05)
PumpTimeout ==
  /\ pumpPc = "read"
  /\ pending = <<>>
  /\ procState = "running"
  /\ pumpPc' = "check"
  /\ UNCHANGED <<sessionVars, procVars, closePc, closePolls, regVars, now, inp, starts, mgrVars,
                 allOut, readerVars, sseVars, polls, last>>

\* line 76: pexpect.EOF: break, then lines 83-86.  pexpect sets flag_eof when
\* a read ends in EOF and calls isalive() before it raises, and with flag_eof
\* set isalive() waits for the exit of the process (waitpid without WNOHANG):
\* the read in the executor returns EOF once the process is waitable and
\* reaped, and line 84 finds it dead
PumpEOF ==
  /\ pumpPc = "read"
  /\ pending = <<>>
  /\ procState \in {"closing", "dead"}
  /\ procState' = "dead"
  /\ terminated' = TRUE
  /\ exit_code' = procStatus
  /\ running' = FALSE
  /\ pumpPc' = "done"
  /\ UNCHANGED <<output_buffer, output_seq, dims, last_activity,
                 procStatus, signalled, pending,
                 closePc, closePolls, regVars, now, inp, starts, mgrVars, allOut, readerVars, sseVars,
                 polls, last>>


\* line 76: an OSError of the read that pexpect does not turn into EOF (any
\* errno but EIO): break, then lines 83-86 with a non-blocking isalive()
PumpOSError ==
  /\ pumpPc = "read"
  /\ PumpExit
  /\ UNCHANGED <<output_buffer, output_seq, dims, last_activity,
                 procState, procStatus, signalled, pending,
                 closePc, closePolls, regVars, now, inp, starts, mgrVars, allOut, readerVars, sseVars,
                 polls, last>>

\* lines 79-81: any other exception of the read (ValueError, PtyProcessError
\* ...) is printed, then await asyncio.sleep(0.1) and the loop goes on
PumpReadError ==
  /\ pumpPc = "read"
  /\ pumpPc' = "retry"
  /\ UNCHANGED <<sessionVars, procVars, closePc, closePolls, regVars, now, inp, starts, mgrVars,
                 allOut, readerVars, sseVars, polls, last>>

\* ------------------------------------------------------------ PTYSession.close
\* faulty variant: the sentinel also stands in for a status not yet available
CloseExitCodeSentinel(reaped) ==
  IF procState = "none" \/ ~reaped THEN Some(Sentinel) ELSE procStatus

\* line 154: self.process.exitstatus if self.process else -1, given whether
\* pexpect has reaped the process by then
CloseExitCode(reaped) ==
  IF procState = "none" THEN Some(Sentinel)
  ELSE IF reaped THEN procStatus ELSE None

\* lines 136-154 up to the first await: the process is dead (skip to line
\* 154) or terminate(force=True) starts in the executor, where it sends
\* SIGHUP first
CloseFrom136(k) ==
  /\ terminated' = (terminated \/ procState = "dead")
  /\ IF ProcIsAlive
     THEN /\ closePc' = [closePc EXCEPT ![k] = "terminating"]
          /\ signalled' = (IF signalled = "forced" THEN "forced" ELSE "graceful")
          /\ UNCHANGED exit_code
     ELSE /\ closePc' = [closePc EXCEPT ![k] = "done"]
          /\ exit_code' = CloseExitCode(terminated')
          /\ UNCHANGED signalled

\* faulty variant: the cancellation does not reach the pump task
AfterCancelIgnored == pumpPc

\* line 130: self._output_task.cancel() on a task that has not ended: the
\* CancelledError is raised at the await the task is suspended in (the read
\* in the executor or a sleep) and no handler of the loop catches it
AfterCancel == "cancelled"

\* lines 127-134: _running = False, cancel the pump task and await it.
\* PTYManager.close_session pops the id first (line 77); stop() closes the
\* sessions of its snapshot (lines 30-31).
CloseBegin(k) ==
  /\ IF k = "close_session"
     THEN /\ closePc[k] = "idle"
          /\ Found
          /\ sessions' = AfterPop(Sid)
     ELSE /\ closePc[k] = "snap"
          /\ UNCHANGED sessions
  /\ running' = FALSE
  /\ IF pumpPc = "done"
     THEN /\ CloseFrom136(k)
          /\ UNCHANGED pumpPc
     ELSE /\ pumpPc' = AfterCancel
          /\ closePc' = [closePc EXCEPT ![k] = "awaitTask"]
          /\ UNCHANGED <<terminated, signalled, exit_code>>
  /\ UNCHANGED <<output_buffer, output_seq, dims, last_activity,
                 procState, procStatus, pending, closePolls, owner, now, inp, starts, mgrVars,
                 allOut, readerVars, sseVars, polls, last>>

\* the cancelled pump task has ended: close() resumes at line 136
CloseAfterTask(k) ==
  /\ closePc[k] = "awaitTask"
  /\ CloseFrom136(k)
  /\ UNCHANGED <<running, output_buffer, output_seq, dims, last_activity,
                 procState, procStatus, pending, pumpPc, closePolls, regVars, now, inp, starts, mgrVars,
                 allOut, readerVars, sseVars, polls, last>>

\* line 139, inside pexpect's terminate(force=True): the process is still
\* alive after SIGHUP, SIGCONT and SIGINT (each followed by a sleep of
\* delayafterterminate and an isalive() check), so SIGKILL is sent
CloseTerminateForce(k) ==
  /\ closePc[k] = "terminating"
  /\ ProcIsAlive
  /\ closePc' = [closePc EXCEPT ![k] = "forcing"]
  /\ signalled' = "forced"
  /\ UNCHANGED <<sessionVars, procState, procStatus, terminated, pending,
                 pumpPc, closePolls, regVars, now, inp, starts, mgrVars,
                 allOut, readerVars, sseVars, polls, last>>

\* lines 143-154 from a liveness check of the poll loop on: n checks were
\* made before this one; after the loop line 150 sends kill(9)
CloseCheck(k, n) ==
  /\ terminated' = (terminated \/ procState = "dead")
  /\ IF ~ProcIsAlive
     THEN /\ closePc' = [closePc EXCEPT ![k] = "done"]
          /\ exit_code' = CloseExitCode(terminated')
          /\ UNCHANGED <<closePolls, signalled>>
     ELSE IF n < ClosePolls
     THEN /\ closePc' = [closePc EXCEPT ![k] = "poll"]
          /\ closePolls' = [closePolls EXCEPT ![k] = n + 1]
          /\ UNCHANGED <<exit_code, signalled>>
     ELSE /\ closePc' = [closePc EXCEPT ![k] = "killing"]
          /\ signalled' = "forced"
          /\ UNCHANGED <<closePolls, exit_code>>

\* terminate(True) returned (its error, if any, is swallowed): it found the
\* process dead at one of its checks, or it has sent SIGKILL and slept; then
\* the first check of the poll loop
CloseTerminated(k) ==
  /\ \/ closePc[k] = "terminating" /\ ~ProcIsAlive
     \/ closePc[k] = "forcing"
  /\ CloseCheck(k, 0)
  /\ UNCHANGED <<running, output_buffer, output_seq, dims, last_activity,
                 procState, procStatus, pending, pumpPc, regVars, now, inp, starts, mgrVars,
                 allOut, readerVars, sseVars, polls, last>>

\* the wake-up from asyncio.sleep(0.1) of the poll loop
ClosePoll(k) ==
  /\ closePc[k] = "poll"
  /\ CloseCheck(k, closePolls[k])
  /\ UNCHANGED <<running, output_buffer, output_seq, dims, last_activity,
                 procState, procStatus, pending, pumpPc, regVars, now, inp, starts, mgrVars,
                 allOut, readerVars, sseVars, polls, last>>

\* kill(9) returned (its error, if any, is swallowed): line 154
CloseKilled(k) ==
  /\ closePc[k] = "killing"
  /\ closePc' = [closePc EXCEPT ![k] = "done"]
  /\ exit_code' = CloseExitCode(terminated)
  /\ UNCHANGED <<running, output_buffer, output_seq, dims, last_activity,
                 procVars, pumpPc, closePolls, regVars, now, inp, starts, mgrVars,
                 allOut, readerVars, sseVars, polls, last>>

\* PTYManager.stop(), lines 22-30: the reaper is cancelled and awaited, then
\* the sessions in the registry are listed
StopSnapshot ==
  /\ closePc["stop"] = "idle"
  /\ Found
  /\ closePc' = [closePc EXCEPT !["stop"] = "snap"]
  /\ UNCHANGED <<sessionVars, procVars, pumpPc, closePolls, regVars, now, inp, starts, mgrVars,
                 allOut, readerVars, sseVars, polls, last>>

\* PTYManager.stop(), line 32: self.sessions.clear()
StopClear ==
  /\ closePc["stop"] = "done"
  /\ closePc' = [closePc EXCEPT !["stop"] = "cleared"]
  /\ sessions' = {}
  /\ UNCHANGED <<sessionVars, procVars, pumpPc, closePolls, owner, now, inp, starts, mgrVars,
                 allOut, readerVars, sseVars, polls, last>>


\* ------------------------------------------------------------------- clients
\* PTYSession.write_input / resize, lines 89-90 and 97-98
NotRunning == ~running \/ procState = "none"

\* the response of an adapter call and whether is_alive() held when it came
Call(op, result) ==
  [op |-> op, found |-> Found, alive |-> Found /\ is_alive, result |-> result]

\* GET /terminal/sessions/{id}/output?seq=c (get_session_output): the
\* response body, or 404 when the id is not in the registry
PollResponse(c) ==
  IF ~Found THEN [status |-> 404, cursor |-> c, output |-> <<>>, seq |-> 0,
                  exit_code |-> None, epoch |-> Len(allOut)]
  ELSE LET r == get_output_since(c)
       IN [status |-> 200, cursor |-> c, output |-> r[1], seq |-> r[2],
           exit_code |-> exit_code, epoch |-> Len(allOut)]

\* faulty variant: the read consumes the buffer
PollDrain(c) ==
  /\ polls' = (IF Len(polls) >= 2 THEN Tail(polls) ELSE polls) \o <<PollResponse(c)>>
  /\ output_buffer' = <<>>
  /\ UNCHANGED <<running, output_seq, exit_code, dims, last_activity,
                 procVars, taskVars, regVars, now, inp, starts, mgrVars,
                 allOut, readerVars, sseVars, last>>

\* a client polls with any cursor
Poll(c) ==
  /\ polls' = (IF Len(polls) >= 2 THEN Tail(polls) ELSE polls) \o <<PollResponse(c)>>
  /\ UNCHANGED <<sessionVars, procVars, taskVars, regVars, now, inp, starts, mgrVars,
                 allOut, readerVars, sseVars, last>>

\* a client that starts at cursor 0 and passes back the cursor of its last
\* response, until a response carries an exit code
ReaderPoll ==
  /\ ~rdDone
  /\ Found
  /\ LET resp == PollResponse(rdCursor)
     IN /\ rdText' = rdText \o resp.output
        /\ rdCursor' = resp.seq
        /\ rdDone' = (resp.exit_code # None)
  /\ UNCHANGED <<sessionVars, procVars, taskVars, regVars, now, inp, starts, mgrVars,
                 allOut, rdLost, sseVars, polls, last>>

\* faulty variant: the stream is started without looking the id up
SseSubscribeNoLookup ==
  /\ ssePc = "off"
  /\ ssePc' = "loop"
  /\ sseSeq' = 0
  /\ sseLive' = is_alive
  /\ UNCHANGED <<sessionVars, procVars, taskVars, regVars, now, inp, starts, mgrVars,
                 allOut, readerVars, sseText, sseFinal, polls, last>>

\* GET /terminal/sessions/{id}/stream: 404 for an id that is not in the
\* registry (lines 190-192), else the generator is created with seq = 0
SseSubscribe ==
  /\ ssePc = "off"
  /\ IF Found
     THEN /\ ssePc' = "loop"
          /\ sseSeq' = 0
          /\ sseLive' = is_alive
          /\ UNCHANGED last
     ELSE /\ last' = Call("http_stream", "not_found")
          /\ UNCHANGED <<ssePc, sseSeq, sseLive>>
  /\ UNCHANGED <<sessionVars, procVars, taskVars, regVars, now, inp, starts, mgrVars,
                 allOut, readerVars, sseText, sseFinal, polls>>

\* faulty variant: the stream also ends when an iteration finds no new output
SseStepEndsIdle ==
  /\ ssePc = "loop"
  /\ terminated' = (terminated \/ (running /\ procState = "dead"))
  /\ LET r == get_output_since(sseSeq)
     IN IF is_alive /\ r[1] # <<>>
        THEN /\ sseText' = sseText \o r[1] /\ sseSeq' = r[2]
             /\ UNCHANGED <<ssePc, sseFinal>>
        ELSE /\ sseFinal' = Append(sseFinal, exit_code)
             /\ ssePc' = "done"
             /\ UNCHANGED <<sseText, sseSeq>>
  /\ UNCHANGED <<sessionVars, procState, procStatus, signalled, pending,
                 taskVars, regVars, now, inp, starts, mgrVars, allOut, readerVars, sseLive, polls, last>>

\* event_generator, one iteration of lines 197-212, or lines 214-220 once
\* is_alive() is false
SseStep ==
  /\ ssePc = "loop"
  /\ terminated' = (terminated \/ (running /\ procState = "dead"))
  /\ IF is_alive
     THEN LET r == get_output_since(sseSeq)
          IN /\ IF r[1] # <<>>
                THEN sseText' = sseText \o r[1] /\ sseSeq' = r[2]
                ELSE UNCHANGED <<sseText, sseSeq>>
             /\ UNCHANGED <<ssePc, sseFinal>>
     ELSE /\ sseFinal' = Append(sseFinal, exit_code)
          /\ ssePc' = "done"
          /\ UNCHANGED <<sseText, sseSeq>>
  /\ UNCHANGED <<sessionVars, procState, procStatus, signalled, pending,
                 taskVars, regVars, now, inp, starts, mgrVars, allOut, readerVars, sseLive, polls, last>>

\* faulty variant: the stream's end also removes the session from the registry
SseDisconnectCloses ==
  /\ ssePc = "loop"
  /\ ssePc' = "gone"
  /\ sessions' = AfterPop(Sid)
  /\ UNCHANGED <<sessionVars, procVars, taskVars, owner, now, inp, starts, mgrVars,
                 allOut, readerVars, sseSeq, sseText, sseFinal, sseLive, polls, last>>

\* the client of the SSE stream disconnects, or writing to it fails: the
\* server closes event_generator at the yield or the sleep it is suspended in
\* (lines 208, 212); GeneratorExit and CancelledError pass the handler of
\* line 221, and the generator has no cleanup code
SseDisconnect ==
  /\ ssePc = "loop"
  /\ ssePc' = "gone"
  /\ UNCHANGED <<sessionVars, procVars, taskVars, regVars, now, inp, starts, mgrVars,
                 allOut, readerVars, sseSeq, sseText, sseFinal, sseLive, polls, last>>

\* ------------------------------------------------- input and resize adapters
\* no call was issued; winsize is the size the pty has (spawn passes
\* dimensions=(rows, cols))
NoInput == [issued |-> 0, flying |-> {}, applied |-> <<>>, winsize |-> <<24, 80>>]

Dims == {<<24, 80>>, <<40, 120>>}

\* POST /terminal/sessions/{id}/input (send_input); sent tells whether
\* process.send succeeded
HttpInput(sent) ==
  /\ terminated' = (terminated \/ (Found /\ running /\ procState = "dead"))
  /\ IF ~Found
     THEN last' = Call("http_input", "not_found") /\ UNCHANGED last_activity
     ELSE IF ~is_alive
     THEN last' = Call("http_input", "not_alive") /\ UNCHANGED last_activity
     ELSE IF NotRunning
     THEN last' = Call("http_input", "not_running") /\ UNCHANGED last_activity
     ELSE IF sent
     THEN last' = Call("http_input", "ok") /\ last_activity' = now
     ELSE last' = Call("http_input", "error") /\ UNCHANGED last_activity
  /\ UNCHANGED <<running, output_buffer, output_seq, exit_code, dims,
                 procState, procStatus, signalled, pending, taskVars, regVars, now, inp, starts, mgrVars,
                 allOut, readerVars, sseVars, polls>>

\* PTYSession.resize(rows, cols): what it raises or "ok"; set tells whether
\* process.setwinsize succeeded
ResizeOutcome(set) ==
  IF NotRunning THEN "not_running" ELSE IF set THEN "ok" ELSE "error"

\* faulty variant: resize forwards the size to the pty and does not store it
ResizeEffectNoStore(d, set) ==
  /\ dims' = dims
  /\ last_activity' = (IF ~NotRunning /\ set THEN now ELSE last_activity)

\* faulty variant: resize stores the size and leaves last_activity alone
ResizeEffectNoTouch(d, set) ==
  /\ dims' = (IF NotRunning THEN dims ELSE d)
  /\ last_activity' = last_activity

\* PTYSession.resize(rows, cols): its writes, lines 100-109
ResizeEffect(d, set) ==
  /\ dims' = (IF NotRunning THEN dims ELSE d)
  /\ last_activity' = (IF ~NotRunning /\ set THEN now ELSE last_activity)

\* the response of a resize call for size d
CallResize(op, d, result) ==
  [op |-> op, found |-> Found, alive |-> Found /\ is_alive, result |-> result,
   rows |-> d[1], cols |-> d[2]]

\* POST /terminal/sessions/{id}/resize (resize_session)
HttpResize(d, set) ==
  /\ IF ~Found
     THEN last' = CallResize("http_resize", d, "not_found") /\ UNCHANGED <<dims, last_activity>>
     ELSE last' = CallResize("http_resize", d, ResizeOutcome(set)) /\ ResizeEffect(d, set)
  /\ UNCHANGED <<running, output_buffer, output_seq, exit_code,
                 procVars, taskVars, regVars, now, inp, starts, mgrVars,
                 allOut, readerVars, sseVars, polls>>

\* TerminalService.ResizeTerminal: any exception becomes success=False
GrpcResize(d, set) ==
  /\ IF ~Found
     THEN last' = CallResize("grpc_resize", d, "not_found") /\ UNCHANGED <<dims, last_activity>>
     ELSE /\ last' = CallResize("grpc_resize", d,
                               IF ResizeOutcome(set) = "ok" THEN "ok" ELSE "failed")
          /\ ResizeEffect(d, set)
  /\ UNCHANGED <<running, output_buffer, output_seq, exit_code,
                 procVars, taskVars, regVars, now, inp, starts, mgrVars,
                 allOut, readerVars, sseVars, polls>>

\* GET /terminal/sessions/{id}/status (get_session_status)
HttpStatus ==
  /\ terminated' = (terminated \/ (Found /\ running /\ procState = "dead"))
  /\ last' = IF ~Found THEN Call("http_status", "not_found")
             ELSE [op |-> "http_status", found |-> TRUE, alive |-> is_alive,
                   result |-> "ok", exit_code |-> exit_code,
                   rows |-> dims[1], cols |-> dims[2]]
  /\ UNCHANGED <<sessionVars, procState, procStatus, signalled, pending,
                 taskVars, regVars, now, inp, starts, mgrVars,
                 allOut, readerVars, sseVars, polls>>

\* DELETE /terminal/sessions/{id} (404) and TerminalService.CloseSession
\* (success=False) for an id that is not in the registry:
\* PTYManager.close_session returns False
CloseUnknown(op) ==
  /\ ~Found
  /\ last' = Call(op, IF op = "http_close" THEN "not_found" ELSE "success_false")
  /\ UNCHANGED <<sessionVars, procVars, taskVars, regVars, now, inp, starts, mgrVars,
                 allOut, readerVars, sseVars, polls>>

\* send_input (lines 100-108) with write_input up to its await (lines 89-93),
\* or resize_session (lines 122-126) with resize up to its await (lines
\* 97-108): the call passes the checks and hands process.send or
\* process.setwinsize to the default executor, a pool of threads; d is the
\* size of a resize (stored at once, lines 100-101) and the size the session
\* has for an input write
IssueCall(kind, d) ==
  /\ inp.issued < MaxCalls
  /\ Found
  /\ IF kind = "input" THEN is_alive ELSE ~NotRunning
  /\ inp' = [inp EXCEPT !.issued = @ + 1,
                        !.flying = @ \cup {[n |-> inp.issued + 1, kind |-> kind, d |-> d]}]
  /\ IF kind = "input" THEN d = dims ELSE TRUE
  /\ dims' = d
  /\ UNCHANGED <<running, output_buffer, output_seq, exit_code, last_activity,
                 procVars, taskVars, regVars, now, starts, mgrVars,
                 allOut, readerVars, sseVars, polls, last>>

\* a thread of the executor runs the call c it was handed (os.write or the
\* TIOCSWINSZ ioctl on the pty), then the handler resumes: last_activity
\* (lines 94, 109) and the response.  The threads of the pool run the calls
\* that are in flight in any order
ApplyCall(c) ==
  /\ c \in inp.flying
  /\ inp' = [inp EXCEPT !.flying = @ \ {c},
                        !.applied = Append(@, c.n),
                        !.winsize = IF c.kind = "resize" THEN c.d ELSE @]
  /\ last_activity' = now
  /\ last' = IF c.kind = "input" THEN Call("http_input", "ok")
             ELSE CallResize("http_resize", c.d, "ok")
  /\ UNCHANGED <<running, output_buffer, output_seq, exit_code, dims,
                 procVars, taskVars, regVars, now, starts, mgrVars,
                 allOut, readerVars, sseVars, polls>>

\* TerminalService.Stream, first inbound frame (an input or a resize frame):
\* asyncio.create_task is given the async generator _stream_output and
\* raises TypeError before the frame is handled (line 107); the handler at
\* line 136 turns it into an error frame and the stream ends
GrpcStream(frame) ==
  /\ last' = Call("stream_" \o frame, IF ~Found THEN "not_found" ELSE "type_error")
  /\ UNCHANGED <<sessionVars, procVars, taskVars, regVars, now, inp, starts, mgrVars,
                 allOut, readerVars, sseVars, polls>>

\* ---------------------------------------------------------------- PTYManager
\* str(uuid.uuid4()): the characters of an id are hex digits
UUIDs == {<<"a", "a">>, <<"a", "b">>, <<"b", "a">>, <<"b", "b">>}

\* user ids: "u" is no hex digit, so <<"u">> is the prefix of no session id;
\* <<"a">> is the prefix of some
NoUser == <<>>
Users == {<<"u">>, <<"a">>}

\* str.startswith
StartsWith(str, prefix) ==
  Len(prefix) <= Len(str) /\ SubSeq(str, 1, Len(prefix)) = prefix

\* lines 63-66: the sessions counted against user_id
UserSessions(user_id) == {id \in sessions : StartsWith(id, user_id)}

\* what the registry reads of a session and the history of the calls made on
\* it: act is last_activity, alive is is_alive(), closes counts the close()
\* calls made by close_session, trues the close_session calls that returned
\* True, raised tells whether a close() made by close_session raised, stopped
\* whether stop() called close() on it
NewSess(t) ==
  [act |-> t, alive |-> TRUE, closes |-> 0, trues |-> 0, raised |-> FALSE,
   stopped |-> FALSE]

\* PTYManager.create_session(user_id=u): id is the uuid4 the new PTYSession
\* draws, spawned tells whether pexpect.spawn succeeded
RegCreate(u, id, spawned) ==
  /\ id \notin DOMAIN owner
  /\ IF u # NoUser /\ Cardinality(UserSessions(u)) >= MaxSessionsPerUser
     THEN /\ last' = [op |-> "create", user |-> u, result |-> "limit"]
          /\ UNCHANGED <<sessions, owner, sess>>
     ELSE IF ~spawned
     THEN /\ last' = [op |-> "create", user |-> u, result |-> "spawn_error"]
          /\ UNCHANGED <<sessions, owner, sess>>
     ELSE /\ last' = [op |-> "create", user |-> u, result |-> "created"]
          /\ sessions' = sessions \cup {id}
          /\ owner' = owner @@ (id :> u)
          /\ sess' = sess @@ (id :> NewSess(now))
  /\ UNCHANGED <<sessionVars, procVars, taskVars, now, inp, starts, calls, reaper, mgr,
                 allOut, readerVars, sseVars, polls>>

\* PTYManager.close_session(session_id) on a session of the registry model
RegClose(id) ==
  /\ last' = [op |-> "close", id |-> id, result |-> (id \in sessions)]
  /\ sessions' = sessions \ {id}
  /\ sess' = IF id \in sessions
             THEN [sess EXCEPT ![id].alive = FALSE, ![id].closes = @ + 1,
                               ![id].trues = @ + 1]
             ELSE sess
  /\ UNCHANGED <<sessionVars, procVars, taskVars, owner, now, inp, starts, calls, reaper, mgr,
                 allOut, readerVars, sseVars, polls>>

\* --------------------------------------- PTYManager: close calls, reaper, stop
\* the adapters that call PTYManager.close_session: DELETE handler, CloseSession RPC
Callers == {"http", "grpc"}

IdleCall == [pc |-> "idle", id |-> <<>>, ret |-> "none"]

\* the orders in which a dict holding the ids S can list them (insertion
\* order, and sessions are created in any order)
Orders(S) ==
  {f \in [1..Cardinality(S) -> S] : \A i, j \in 1..Cardinality(S) : f[i] = f[j] => i = j}

\* close_session lines 77-79 for an id in the dict: the pop, and close() up
\* to its first await (close() sets _running = False first)
Popped(s, id) == [s EXCEPT ![id].closes = @ + 1, ![id].alive = FALSE]

\* faulty variant: only idle sessions are reaped
EligibleIdleOnly(id) == sess[id].act < now - SessionTimeout

\* line 49: session.last_activity < timeout_threshold or not session.is_alive()
Eligible(id) == sess[id].act < now - SessionTimeout \/ ~sess[id].alive

\* time passes
Tick ==
  /\ now < MaxNow
  /\ now' = now + 1
  /\ UNCHANGED <<sessionVars, procVars, taskVars, regVars, inp, starts, mgrVars,
                 allOut, readerVars, sseVars, polls, last>>

\* input, resize or output of a session: last_activity = datetime.utcnow()
SessTouch(id) ==
  /\ id \in sessions
  /\ sess[id].alive
  /\ sess[id].act # now
  /\ sess' = [sess EXCEPT ![id].act = now]
  /\ UNCHANGED <<sessionVars, procVars, taskVars, regVars, now, inp, starts, calls, reaper, mgr,
                 allOut, readerVars, sseVars, polls, last>>

\* the shell of a session exits: is_alive() is false from now on
SessExit(id) ==
  /\ id \in sessions
  /\ sess[id].alive
  /\ sess' = [sess EXCEPT ![id].alive = FALSE]
  /\ UNCHANGED <<sessionVars, procVars, taskVars, regVars, now, inp, starts, calls, reaper, mgr,
                 allOut, readerVars, sseVars, polls, last>>

\* an adapter calls PTYManager.close_session(id): lines 77-81 up to the
\* first await; an id that is not in the dict is answered False at once
CallClose(c, id) ==
  /\ calls[c].pc = "idle"
  /\ IF id \in sessions
     THEN /\ sessions' = AfterPop(id)
          /\ sess' = Popped(sess, id)
          /\ calls' = [calls EXCEPT ![c] = [pc |-> "closing", id |-> id, ret |-> "none"]]
     ELSE /\ calls' = [calls EXCEPT ![c] = [pc |-> "idle", id |-> id, ret |-> "false"]]
          /\ UNCHANGED <<sessions, sess>>
  /\ UNCHANGED <<sessionVars, procVars, taskVars, owner, now, inp, starts, reaper, mgr,
                 allOut, readerVars, sseVars, polls, last>>

\* session.close() ends: close_session returns True (line 80), or the error
\* close() raised leaves close_session
CallReturn(c, ok) ==
  /\ calls[c].pc = "closing"
  /\ calls' = [calls EXCEPT ![c].pc = "idle", ![c].ret = IF ok THEN "true" ELSE "raised"]
  /\ sess' = IF ok THEN [sess EXCEPT ![calls[c].id].trues = @ + 1]
             ELSE [sess EXCEPT ![calls[c].id].raised = TRUE]
  /\ UNCHANGED <<sessionVars, procVars, taskVars, regVars, now, inp, starts, reaper, mgr,
                 allOut, readerVars, sseVars, polls, last>>

\* ------------------------------------------------------ PTYManager._cleanup_loop
\* pc: "none" (no task) | "wait" (created, or in the sleep of line 38) |
\* "wait_err" (in the sleep of line 42) | "closing" (in close_session of
\* Head(list)) | "ended"; scan is sessions_to_remove of the current pass,
\* list what is left of it; cancel: stop() has cancelled the task and the
\* CancelledError is not yet delivered; failed: a pass has ended in an error
NoReaper == [pc |-> "none", list |-> <<>>, scan |-> {}, cancel |-> FALSE, failed |-> FALSE]

\* the ids of list from the first one that is still in the dict: for the
\* others close_session returns False at once (lines 77, 81)
RECURSIVE DropMissing(_)
DropMissing(list) ==
  IF list = <<>> \/ Head(list) \in sessions THEN list ELSE DropMissing(Tail(list))

\* faulty variant: an error of a pass ends the loop
AfterPassErrorEnds == "ended"

\* lines 41-42: except Exception: await asyncio.sleep(60), then the loop goes on
AfterPassError == "wait_err"

\* lines 52-53 from the close_session call for Head(list) on, up to the next
\* await: close() of the next session still in the dict, or the sleep of
\* line 38 when none is left; s and r are sess and reaper as the caller
\* leaves them
ReaperFrom52(list, s, r) ==
  LET left == DropMissing(list)
  IN IF left = <<>>
     THEN /\ reaper' = [r EXCEPT !.pc = "wait", !.list = <<>>]
          /\ sess' = s
          /\ UNCHANGED sessions
     ELSE /\ reaper' = [r EXCEPT !.pc = "closing", !.list = left]
          /\ sess' = Popped(s, Head(left))
          /\ sessions' = AfterPop(Head(left))

\* the task wakes up (or runs first): line 35, and one pass of
\* _cleanup_inactive_sessions up to its first await
ReaperPass ==
  /\ reaper.pc \in {"wait", "wait_err"}
  /\ ~reaper.cancel
  /\ IF ~mgr.running
     THEN /\ reaper' = [reaper EXCEPT !.pc = "ended"]
          /\ UNCHANGED <<sessions, sess>>
     ELSE LET sessions_to_remove == {id \in sessions : Eligible(id)}
          IN \E list \in Orders(sessions_to_remove) :
               ReaperFrom52(list, sess, [reaper EXCEPT !.scan = sessions_to_remove])
  /\ UNCHANGED <<sessionVars, procVars, taskVars, owner, now, inp, starts, calls, mgr,
                 allOut, readerVars, sseVars, polls, last>>

\* close_session of the pass returns True and the for loop goes on, or
\* close() raised: nothing between line 53 and the handler of line 41
\* catches it, the rest of the list is dropped
ReaperCloseReturn(ok) ==
  /\ reaper.pc = "closing"
  /\ ~reaper.cancel
  /\ IF ok
     THEN ReaperFrom52(Tail(reaper.list),
                       [sess EXCEPT ![Head(reaper.list)].trues = @ + 1], reaper)
     ELSE /\ reaper' = [reaper EXCEPT !.pc = AfterPassError, !.list = <<>>,
                                      !.failed = TRUE]
          /\ sess' = [sess EXCEPT ![Head(reaper.list)].raised = TRUE]
          /\ UNCHANGED sessions
  /\ UNCHANGED <<sessionVars, procVars, taskVars, owner, now, inp, starts, calls, mgr,
                 allOut, readerVars, sseVars, polls, last>>

\* the CancelledError of stop() reaches the task at the await it is in.  In
\* the sleeps of lines 38 and 42 it ends the task.  Inside close() it ends the
\* task from the sleep of line 146; the awaits of lines 132, 139 and 150 sit in
\* handlers that catch it (swallowed): close() and the pass go on
ReaperCancelled(swallowed) ==
  /\ reaper.cancel
  /\ IF reaper.pc = "closing" /\ swallowed
     THEN reaper' = [reaper EXCEPT !.cancel = FALSE]
     ELSE /\ ~swallowed
          /\ reaper' = [reaper EXCEPT !.pc = "ended", !.cancel = FALSE, !.list = <<>>]
  /\ UNCHANGED <<sessionVars, procVars, taskVars, regVars, now, inp, starts, sess, calls, mgr,
                 allOut, readerVars, sseVars, polls, last>>

\* -------------------------------------------------- PTYManager.start and stop
\* stop: "idle" (not called) | "awaitReaper" (line 26) | "closing" (line 31,
\* in close() of Head(list)) | "returned" | "raised"; open: the dict when
\* stop() was called (history)
NoStop == [running |-> FALSE, stop |-> "idle", list |-> <<>>, open |-> {}]

\* PTYManager.start(), lines 15-19
MgrStart ==
  /\ ~mgr.running
  /\ mgr.stop = "idle"
  /\ reaper.pc = "none"
  /\ mgr' = [mgr EXCEPT !.running = TRUE]
  /\ reaper' = [reaper EXCEPT !.pc = "wait"]
  /\ UNCHANGED <<sessionVars, procVars, taskVars, regVars, now, inp, starts, sess, calls,
                 allOut, readerVars, sseVars, polls, last>>

\* faulty variant: stop() empties the dict without closing the sessions
StopFrom31ClearOnly(list, m) ==
  /\ sessions' = {}
  /\ mgr' = [m EXCEPT !.stop = "returned", !.list = <<>>]
  /\ UNCHANGED sess

\* lines 30-32 from the close() call for Head(list) on, up to the next
\* await; m is mgr as the caller leaves it
StopFrom31(list, m) ==
  IF list = <<>>
  THEN /\ sessions' = {}
       /\ mgr' = [m EXCEPT !.stop = "returned", !.list = <<>>]
       /\ UNCHANGED sess
  ELSE /\ mgr' = [m EXCEPT !.stop = "closing", !.list = list]
       /\ sess' = [sess EXCEPT ![Head(list)].stopped = TRUE, ![Head(list)].alive = FALSE]
       /\ UNCHANGED sessions

\* stop() is called: lines 22-26, and on to line 30 when there is no task
\* to wait for
MgrStop ==
  /\ mgr.stop = "idle"
  /\ IF reaper.pc \in {"none", "ended"}
     THEN /\ \E list \in Orders(sessions) :
               StopFrom31(list, [mgr EXCEPT !.running = FALSE, !.open = sessions])
          /\ UNCHANGED reaper
     ELSE /\ mgr' = [mgr EXCEPT !.running = FALSE, !.open = sessions,
                                !.stop = "awaitReaper"]
          /\ reaper' = [reaper EXCEPT !.cancel = TRUE]
          /\ UNCHANGED <<sessions, sess>>
  /\ UNCHANGED <<sessionVars, procVars, taskVars, owner, now, inp, starts, calls,
                 allOut, readerVars, sseVars, polls, last>>

\* the reaper task has ended: stop() resumes at line 30
StopResume ==
  /\ mgr.stop = "awaitReaper"
  /\ reaper.pc = "ended"
  /\ \E list \in Orders(sessions) : StopFrom31(list, mgr)
  /\ UNCHANGED <<sessionVars, procVars, taskVars, owner, now, inp, starts, calls, reaper,
                 allOut, readerVars, sseVars, polls, last>>

\* close() of line 31 ends: the loop goes on, or the error leaves stop()
StopCloseReturn(ok) ==
  /\ mgr.stop = "closing"
  /\ IF ok
     THEN StopFrom31(Tail(mgr.list), mgr)
     ELSE /\ mgr' = [mgr EXCEPT !.stop = "raised", !.list = <<>>]
          /\ UNCHANGED <<sessions, sess>>
  /\ UNCHANGED <<sessionVars, procVars, taskVars, owner, now, inp, starts, calls, reaper,
                 allOut, readerVars, sseVars, polls, last>>

\* ------------------------------------------------------------ specifications
NoCall == [op |-> "none"]

\* the state right after PTYManager.create_session created and started Sid
Init ==
  /\ running = TRUE
  /\ output_buffer = <<>>
  /\ output_seq = 0
  /\ exit_code = None
  /\ dims = <<24, 80>>
  /\ last_activity = 0
  /\ procState = "running"
  /\ procStatus = None
  /\ terminated = FALSE
  /\ signalled = "no"
  /\ pending = <<>>
  /\ pumpPc = "check"
  /\ closePc = [k \in Closers |-> "idle"]
  /\ closePolls = [k \in Closers |-> 0]
  /\ sessions = {Sid}
  /\ owner = (Sid :> NoUser)
  /\ now = 0
  /\ inp = NoInput
  /\ starts = 0
  /\ sess = <<>>
  /\ calls = [c \in Callers |-> IdleCall]
  /\ reaper = NoReaper
  /\ mgr = NoStop
  /\ allOut = <<>>
  /\ rdCursor = 0
  /\ rdText = <<>>
  /\ rdDone = FALSE
  /\ rdLost = FALSE
  /\ ssePc = "off"
  /\ sseSeq = 0
  /\ sseText = <<>>
  /\ sseFinal = <<>>
  /\ sseLive = FALSE
  /\ polls = <<>>
  /\ last = NoCall

Process ==
  \/ \E ch \in Chunks : ProcWrite(ch)
  \/ \E c \in ExitCodes : ProcExit(c)
  \/ ProcKilled
  \/ ProcDie

Pump ==
  \/ PumpCheck
  \/ PumpData
  \/ PumpTimeout
  \/ PumpEOF

\* close() run by the callers in K
CloseBy(K) ==
  \/ \E k \in K : CloseBegin(k)
  \/ \E k \in K : CloseAfterTask(k)
  \/ \E k \in K : CloseTerminateForce(k)
  \/ \E k \in K : CloseTerminated(k)
  \/ \E k \in K : ClosePoll(k)
  \/ \E k \in K : CloseKilled(k)

\* Spec: one session run, closed through close_session, observed by a
\* chained poll client and an SSE subscriber
Next ==
  \/ Process
  \/ Pump
  \/ CloseBy({"close_session"})
  \/ ReaderPoll
  \/ SseSubscribe
  \/ SseStep

Spec == Init /\ [][Next]_vars

\* SpecPoll: one session run, from its start to the exit of its shell, polled
\* with arbitrary cursors
NextPoll ==
  \/ \E ch \in Chunks : ProcWrite(ch)
  \/ \E c \in ExitCodes : ProcExit(c)
  \/ ProcDie
  \/ Pump
  \/ \E c \in Cursors : Poll(c)

SpecPoll == Init /\ [][NextPoll]_vars

\* SpecClose: one session run closed by close_session (an explicit close or
\* the reaper) and by stop(), in any order and also concurrently
NextClose ==
  \/ Process
  \/ Pump
  \/ CloseBy(Closers)
  \/ StopSnapshot
  \/ StopClear

SpecClose == Init /\ [][NextClose]_vars


\* ---------------------------------------------------------------- properties
\* the text of the chunks at sequence positions p .. output_seq - 1
TextFrom(p) == Join(SubSeq(allOut, p + 1, Len(allOut)))

\* the oldest sequence position the buffer still holds
Earliest == output_seq - Len(output_buffer)

\* the poll responses computed in the current buffer state
FreshPolls == {i \in 1..Len(polls) : polls[i].status = 200 /\ polls[i].epoch = Len(allOut)}

\* C1: a poll client that starts at cursor 0 and chains the returned cursors
\* has received, as long as no chunk was evicted before it read it, exactly
\* the chunks appended before its cursor, each once and in append order.
C1_ChainedReaderGetsAll ==
  ~rdLost => /\ rdCursor <= Len(allOut)
             /\ rdText = Join(SubSeq(allOut, 1, rdCursor))

\* C1 witness: the client has read all MaxSeq chunks although the first one
\* was evicted after it read it
C1_Witness ==
  /\ ~rdLost
  /\ rdCursor = MaxSeq
  /\ Len(output_buffer) < output_seq
  /\ rdText = Join(allOut)

\* C2: read_since(cursor) returns the concatenation, in order, of exactly the
\* retained entries at positions >= max(cursor, output_seq - len(buffer)),
\* and the current output_seq.
C2_ReadSinceReturnsRetainedSuffix ==
  \A i \in FreshPolls :
    /\ polls[i].output = TextFrom(Max(polls[i].cursor, Earliest))
    /\ polls[i].seq = output_seq

\* C2 witness: a read from the middle of a buffer that has evicted an entry
C2_Witness ==
  \E i \in FreshPolls :
    /\ Earliest > 0
    /\ polls[i].cursor = Earliest + 1
    /\ polls[i].output # <<>>
    /\ Len(output_buffer) = MaxOutputLines

\* C3: output_seq starts at 0 and a step changes it only by appending one
\* chunk in the pump loop, which adds exactly 1.
C3_SeqCountsAppends ==
  /\ output_seq = 0
  /\ [][IF allOut' # allOut
        THEN pumpPc = "read" /\ output_seq' = output_seq + 1
        ELSE output_seq' = output_seq]_vars

\* C3 witness: two-character chunks were appended and the session was closed
C3_Witness ==
  /\ output_seq = MaxSeq
  /\ \A i \in 1..Len(allOut) : Len(allOut[i]) = 2
  /\ closePc["close_session"] = "done"

\* C4: two reads with the same cursor and no append between them return the
\* same (text, new_cursor), and a read changes nothing of the session.
C4_ReadSinceIdempotent ==
  /\ [](Len(polls) = 2 /\ polls[1].status = 200 /\ polls[2].status = 200
        /\ polls[1].cursor = polls[2].cursor /\ polls[1].epoch = polls[2].epoch
        => polls[1].output = polls[2].output /\ polls[1].seq = polls[2].seq)
  /\ [][polls' # polls => UNCHANGED <<sessionVars, procVars, taskVars>>]_vars

\* C4 witness: the same non-empty read made twice, with the shell exiting
\* in between
C4_Witness ==
  /\ Len(polls) = 2
  /\ polls[1].cursor = polls[2].cursor
  /\ polls[1].epoch = polls[2].epoch
  /\ polls[1].output # <<>>
  /\ polls[1].exit_code # polls[2].exit_code

\* C5: for every integer cursor the read succeeds with new cursor
\* output_seq; a cursor older than the oldest retained entry yields the text
\* from the oldest retained entry on, a cursor beyond output_seq yields "".
C5_OutOfRangeCursorClamped ==
  \A i \in FreshPolls :
    /\ polls[i].seq = output_seq
    /\ polls[i].cursor < Earliest => polls[i].output = Decode(Join(output_buffer))
    /\ polls[i].cursor < Earliest => polls[i].output = TextFrom(Earliest)
    /\ polls[i].cursor > output_seq => polls[i].output = <<>>

\* C5 witness: cursor -1 after an eviction, answered with the retained text
C5_Witness ==
  \E i \in FreshPolls :
    /\ polls[i].cursor < 0
    /\ Earliest > 0
    /\ polls[i].output # <<>>
    /\ polls[i].output # Join(allOut)

\* C6: once exit_code is set, no step changes or clears it.
C6_ExitCodeWriteOnce ==
  [][exit_code # None => exit_code' = exit_code]_vars

\* C6 witness: the pump loop recorded the exit status, then close_session
\* and stop() both ran close() to its end
C6_Witness ==
  /\ exit_code # None
  /\ pumpPc = "done"
  /\ closePc["close_session"] = "done"
  /\ closePc["stop"] \in {"done", "cleared"}


\* C7: an SSE stream of a session that exited or was closed ends with
\* exactly one final event, and that event carries the session's exit code
\* (not null).
C7_FinalEventCarriesExitCode ==
  ssePc = "done" => /\ Len(sseFinal) = 1
                    /\ sseFinal[1] # None

\* C8: with no eviction, an SSE subscriber that attached to the running
\* session and got its final event and a
\* chained poll client that saw the exit code have received the same text.
C8_StreamEqualsPoll ==
  (ssePc = "done" /\ sseLive /\ rdDone /\ Len(output_buffer) = output_seq)
    => sseText = rdText


\* SpecIO: one session run without output, with input and resize calls
\* through every adapter
NextIO ==
  \/ \E c \in ExitCodes : ProcExit(c)
  \/ ProcKilled
  \/ ProcDie
  \/ PumpCheck
  \/ PumpTimeout
  \/ PumpEOF
  \/ CloseBy({"close_session"})
  \/ \E sent \in BOOLEAN : HttpInput(sent)
  \/ \E d \in Dims, set \in BOOLEAN : HttpResize(d, set)
  \/ \E d \in Dims, set \in BOOLEAN : GrpcResize(d, set)
  \/ \E frame \in {"input", "resize"} : GrpcStream(frame)
  \/ HttpStatus
  \/ Poll(0)
  \/ SseSubscribe
  \/ \E op \in {"http_close", "grpc_close"} : CloseUnknown(op)

SpecIO == Init /\ [][NextIO]_vars

InputResizeOps ==
  {"http_input", "http_resize", "grpc_resize", "stream_input", "stream_resize"}

\* C9: an input write or a resize on a session that is in the registry and
\* not RUNNING (is_alive() false) is answered with an error, through every
\* adapter; it never succeeds silently.
C9_NotRunningReportsError ==
  (last.op \in InputResizeOps /\ last.found /\ ~last.alive)
    => last.result \in {"not_alive", "not_running", "failed", "error", "type_error"}


\* SpecReg: the registry from its construction on, sessions held by id only
InitReg ==
  /\ running = FALSE
  /\ output_buffer = <<>>
  /\ output_seq = 0
  /\ exit_code = None
  /\ dims = <<24, 80>>
  /\ last_activity = 0
  /\ procState = "none"
  /\ procStatus = None
  /\ terminated = FALSE
  /\ signalled = "no"
  /\ pending = <<>>
  /\ pumpPc = "none"
  /\ closePc = [k \in Closers |-> "idle"]
  /\ closePolls = [k \in Closers |-> 0]
  /\ sessions = {}
  /\ owner = <<>>
  /\ now = 0
  /\ inp = NoInput
  /\ starts = 0
  /\ sess = <<>>
  /\ calls = [c \in Callers |-> IdleCall]
  /\ reaper = NoReaper
  /\ mgr = NoStop
  /\ allOut = <<>>
  /\ rdCursor = 0
  /\ rdText = <<>>
  /\ rdDone = FALSE
  /\ rdLost = FALSE
  /\ ssePc = "off"
  /\ sseSeq = 0
  /\ sseText = <<>>
  /\ sseFinal = <<>>
  /\ sseLive = FALSE
  /\ polls = <<>>
  /\ last = NoCall

NextReg ==
  \/ \E u \in Users \cup {NoUser}, id \in UUIDs, spawned \in BOOLEAN : RegCreate(u, id, spawned)
  \/ \E id \in UUIDs : RegClose(id)

SpecReg == InitReg /\ [][NextReg]_vars

\* the sessions in the registry that were created with user_id u
OwnedBy(u) == {id \in sessions : owner[id] = u}

\* C10: the sessions in the registry that were created with one caller
\* identity never number more than max_sessions_per_caller.
C10_PerCallerCap ==
  \A u \in Users : Cardinality(OwnedBy(u)) <= MaxSessionsPerUser

\* a fresh uuid4: the id of the session created next, unknown until then
FreshId == CHOOSE id \in UUIDs : id \notin DOMAIN owner

\* the registry with sessions held by id only: sessions are created, exit,
\* and are closed by calls from the adapters in C
RegistryBy(C) ==
  \/ Cardinality(DOMAIN owner) < MaxCreated /\ RegCreate(NoUser, FreshId, TRUE)
  \/ \E id \in DOMAIN owner : SessExit(id)
  \/ \E c \in C, id \in DOMAIN owner \cup {FreshId} : CallClose(c, id)
  \/ \E c \in C, ok \in BOOLEAN : CallReturn(c, ok)

\* SpecRace: the registry from its construction on, started, with its reaper
\* and close calls from both adapters
NextRace ==
  \/ MgrStart
  \/ RegistryBy(Callers)
  \/ ReaperPass
  \/ \E ok \in BOOLEAN : ReaperCloseReturn(ok)

SpecRace == InitReg /\ [][NextRace]_vars

\* SpecReap: the registry from its construction on, started, with its
\* reaper, a clock, sessions in use and close calls from one adapter
NextReap ==
  \/ MgrStart
  \/ RegistryBy({"http"})
  \/ Tick
  \/ \E id \in DOMAIN owner : SessTouch(id)
  \/ ReaperPass
  \/ \E ok \in BOOLEAN : ReaperCloseReturn(ok)

SpecReap == InitReg /\ [][NextReap]_vars

\* SpecStop: the registry from its construction on, started and stopped
NextStop ==
  \/ MgrStart
  \/ RegistryBy({"http"})
  \/ ReaperPass
  \/ \E ok \in BOOLEAN : ReaperCloseReturn(ok)
  \/ \E swallowed \in BOOLEAN : ReaperCancelled(swallowed)
  \/ MgrStop
  \/ StopResume
  \/ \E ok \in BOOLEAN : StopCloseReturn(ok)

SpecStop == InitReg /\ [][NextStop]_vars

\* the close_session calls in flight that are tearing down session id
TearingDown(id) ==
  Cardinality({c \in Callers : calls[c].pc = "closing" /\ calls[c].id = id})
  + (IF reaper.pc = "closing" /\ Head(reaper.list) = id THEN 1 ELSE 0)

Removed == Sid \in DOMAIN owner /\ Sid \notin sessions

\* what an adapter answers for an id that is not in the registry: HTTP 404,
\* gRPC NOT_FOUND, the Stream error frame "Session not found", and
\* success=False from CloseSession
NotFoundResults == {"not_found", "success_false"}

\* C12: once close_session has removed the session, the id stays out of the
\* registry, and every status, poll, input, resize, stream or close call on it
\* is answered not-found and changes nothing of the session.
C12_RemovedStaysNotFound ==
  [][Removed =>
       /\ Sid \notin sessions'
       /\ last' # last => /\ last'.result \in NotFoundResults
                          /\ UNCHANGED <<sessionVars, procVars, taskVars>>
       /\ polls' # polls => /\ polls'[Len(polls')].status = 404
                            /\ UNCHANGED <<sessionVars, procVars, taskVars>>]_vars

\* C12 witness: the session was closed right after its creation, close() has
\* ended, and a status call on the id was answered not-found
C12_Witness ==
  /\ Removed
  /\ closePc["close_session"] = "done"
  /\ output_seq = 0
  /\ last.op = "http_status"
  /\ last.result = "not_found"

ResizeOps == {"http_resize", "grpc_resize"}

NextExit ==
  \/ \E ch \in Chunks : ProcWrite(ch)
  \/ \E c \in ExitCodes : ProcExit(c)
  \/ ProcDie
  \/ Pump
  \/ Poll(0)

SpecExit == Init /\ [][NextExit]_vars /\ WF_vars(Pump) /\ WF_vars(Poll(0))

\* C14: when the shell has exited on its own with status c, the session
\* eventually has exit_code = c through the pump loop alone (close() is never
\* called), and the polling client receives a response with exit_code = c.
C14_ExitCodeEventuallyPolled ==
  \A c \in ExitCodes :
    (procState # "running" /\ procStatus = Some(c))
      ~> (/\ exit_code = Some(c)
          /\ \A k \in Closers : closePc[k] = "idle"
          /\ polls # <<>>
          /\ polls[Len(polls)].exit_code = Some(c))

\* C14 witness: the shell printed, then exited with status 7; the poll
\* response carries exit_code 7 and nobody called close()
C14_Witness ==
  /\ procStatus = Some(7)
  /\ allOut # <<>>
  /\ exit_code = Some(7)
  /\ \A k \in Closers : closePc[k] = "idle"
  /\ polls # <<>>
  /\ polls[Len(polls)].exit_code = Some(7)

\* SpecUnknown: the registry from its construction on, holding other
\* sessions, and calls through every adapter with the id Sid, which the
\* registry never held
NextUnknown ==
  \/ \E id \in UUIDs \ {Sid} : RegCreate(NoUser, id, TRUE)
  \/ \E id \in UUIDs \ {Sid} : RegClose(id)
  \/ Poll(0)
  \/ \E sent \in BOOLEAN : HttpInput(sent)
  \/ \E d \in Dims, set \in BOOLEAN : HttpResize(d, set)
  \/ \E d \in Dims, set \in BOOLEAN : GrpcResize(d, set)
  \/ HttpStatus
  \/ \E op \in {"http_close", "grpc_close"} : CloseUnknown(op)
  \/ SseSubscribe
  \/ \E frame \in {"input", "resize"} : GrpcStream(frame)

SpecUnknown == InitReg /\ [][NextUnknown]_vars

\* the calls that create_session and close_session of the registry model record
RegistryOps == {"none", "create", "close"}

\* C15: a call with an id the registry does not hold is answered not-found
\* by every adapter operation (poll, input, resize, status, close, SSE
\* subscribe, gRPC Stream, gRPC resize and close); no stream is started for
\* it and the call changes nothing of the registry or of a session.
C15_UnknownIdNotFound ==
  /\ [](/\ last.op \notin RegistryOps => ~last.found /\ last.result \in NotFoundResults
        /\ \A i \in 1..Len(polls) : polls[i].status = 404
        /\ ssePc = "off")
  /\ [][(last' # last /\ last'.op \notin RegistryOps) \/ polls' # polls
          => UNCHANGED <<sessionVars, procVars, taskVars, regVars, mgrVars>>]_vars

\* C15 witness: the registry holds two other sessions, a poll with the
\* unknown id got 404 and the gRPC Stream answered "Session not found"
C15_Witness ==
  /\ Cardinality(sessions) = 2
  /\ polls # <<>>
  /\ last.op = "stream_input"
  /\ last.result = "not_found"

\* C16: when stop() returns, the reaper task has ended and the registry is
\* empty; close() was called on every session that was in the registry when
\* stop() was called (by stop(), by the reaper or by an adapter's close
\* call); after the return the reaper takes no step.
C16_StopClosesAll ==
  /\ [](mgr.stop = "returned" =>
          /\ reaper.pc \in {"none", "ended"}
          /\ ~mgr.running
          /\ \A id \in mgr.open : sess[id].stopped \/ sess[id].closes >= 1)
  /\ [][mgr.stop # "returned" /\ mgr'.stop = "returned" => sessions' = {}]_vars
  /\ [][mgr.stop = "returned" => reaper' = reaper]_vars

\* C16 witness: stop() was called with two sessions open and a reaper to
\* cancel; while stop() was closing them an adapter closed one of them too;
\* stop() has returned
C16_Witness ==
  /\ mgr.stop = "returned"
  /\ reaper.pc = "ended"
  /\ Cardinality(mgr.open) = 2
  /\ \A id \in mgr.open : sess[id].stopped
  /\ \E id \in mgr.open : sess[id].closes = 1

\* SpecAttach: one session run that nobody closes, with an SSE subscriber
\* that may disconnect and gRPC Stream calls
NextAttach ==
  \/ \E ch \in Chunks : ProcWrite(ch)
  \/ \E c \in ExitCodes : ProcExit(c)
  \/ ProcDie
  \/ Pump
  \/ SseSubscribe
  \/ SseStep
  \/ SseDisconnect
  \/ \E frame \in {"input", "resize"} : GrpcStream(frame)

SpecAttach == Init /\ [][NextAttach]_vars

\* C17: the end of an SSE stream by disconnect, and the end of a gRPC Stream
\* call, change nothing of the session, its process, its tasks or the
\* registry; afterwards a read with the stream's last cursor returns exactly
\* the chunks appended since that cursor (as long as they are retained), so
\* that with what the stream delivered the client has the whole output.
C17_DisconnectLeavesSession ==
  /\ [][(ssePc = "loop" /\ ssePc' = "gone")
          \/ (last' # last /\ last'.op \in {"stream_input", "stream_resize"})
        => UNCHANGED <<sessionVars, procVars, taskVars, regVars>>]_vars
  /\ [](ssePc = "gone" /\ sseSeq >= Earliest
          => get_output_since(sseSeq) = <<TextFrom(sseSeq), output_seq>>)
  /\ [](ssePc = "gone" /\ Len(output_buffer) = output_seq
          => sseText \o get_output_since(sseSeq)[1] = Join(allOut))

\* C17 witness: the stream delivered a chunk and was cut; the session is
\* still running and has appended another chunk since, which a read with the
\* stream's last cursor returns
C17_Witness ==
  /\ ssePc = "gone"
  /\ sseText # <<>>
  /\ sseSeq < output_seq
  /\ sseSeq >= Earliest
  /\ is_alive
  /\ procState = "running"

\* SpecReapFair: the started registry with its reaper, a clock and sessions
\* that are created, used and exit, and no other caller of close_session; the
\* event loop runs the reaper task whenever its sleep or its await is over
NextReapFair ==
  \/ MgrStart
  \/ Cardinality(DOMAIN owner) < MaxCreated /\ RegCreate(NoUser, FreshId, TRUE)
  \/ \E id \in DOMAIN owner : SessExit(id)
  \/ Tick
  \/ \E id \in DOMAIN owner : SessTouch(id)
  \/ ReaperPass
  \/ \E ok \in BOOLEAN : ReaperCloseReturn(ok)

SpecReapFair ==
  /\ InitReg
  /\ [][NextReapFair]_vars
  /\ WF_vars(ReaperPass)
  /\ WF_vars(\E ok \in BOOLEAN : ReaperCloseReturn(ok))

\* the session is idle for longer than session_timeout, or its process is
\* not alive
IdleOrDead(id) == now - sess[id].act > SessionTimeout \/ ~sess[id].alive

\* C18: with the registry started, a session in the registry that is idle
\* for longer than session_timeout or whose process is not alive is
\* eventually removed from the registry, with close() called on it, unless
\* new activity ends its idleness first; the reaper alone achieves this.
C18_EligibleEventuallyReaped ==
  \A id \in UUIDs :
    (mgr.running /\ id \in sessions /\ IdleOrDead(id))
      ~> ((id \in DOMAIN sess \ sessions /\ sess[id].closes = 1)
          \/ (id \in sessions /\ ~IdleOrDead(id)))

\* C18 witness: a session idle for longer than the timeout was removed and
\* closed by the reaper (no adapter called close on it)
C18_Witness ==
  \E id \in reaper.scan :
    /\ id \notin sessions
    /\ sess[id].act < now - SessionTimeout
    /\ sess[id].trues = 1
    /\ \A c \in Callers : calls[c].id # id

\* C19: when a reaper pass has ended (the task is back in a sleep), every
\* session the pass found eligible has been removed and closed, also when the
\* teardown of one of them raised.
C19_PassClosesAllEligible ==
  reaper.pc \in {"wait", "wait_err"} => reaper.scan \cap sessions = {}

\* C20: the reaper task ends only through stop(): an error raised by a
\* teardown leaves the task in the sleep of its error handler, from which the
\* next pass starts, and leaves the registry running.
C20_ReaperSurvivesErrors ==
  /\ [](reaper.pc = "ended" => mgr.stop # "idle")
  /\ [](mgr.stop = "idle" /\ reaper.pc # "none" => mgr.running)
  /\ [][~reaper.failed /\ reaper'.failed
          => reaper'.pc = "wait_err" /\ ~reaper'.cancel /\ mgr' = mgr]_vars

\* C20 witness: a teardown raised in one pass, and a later pass is closing
\* another session; stop() has not been called
C20_Witness ==
  /\ reaper.failed
  /\ reaper.pc = "closing"
  /\ mgr.stop = "idle"
  /\ \E id \in DOMAIN sess : sess[id].raised /\ id # Head(reaper.list)

\* ------------------------------------------------------------------ C21..C30
\* C21: the buffer holds min(output_seq, max_output_lines) chunks, which are
\* the last ones appended; an append to a full buffer drops exactly the oldest
\* entry; the earliest retrievable sequence is never negative and never
\* decreases.
C21_BufferBounded ==
  /\ [](/\ Len(output_buffer) = Min(output_seq, MaxOutputLines)
        /\ Earliest >= 0
        /\ output_buffer = [i \in 1..Len(output_buffer) |-> Encode(allOut[Earliest + i])])
  /\ [][/\ Earliest' >= Earliest
        /\ (allOut' # allOut /\ Len(output_buffer) = MaxOutputLines)
             => /\ Len(output_buffer') = MaxOutputLines
                /\ SubSeq(output_buffer', 1, MaxOutputLines - 1) = Tail(output_buffer)]_vars

\* C21 witness: appends to the full buffer have evicted entries, and the
\* session was closed afterwards
C21_Witness ==
  /\ Len(output_buffer) = MaxOutputLines
  /\ Earliest = MaxSeq - MaxOutputLines
  /\ Earliest > 0
  /\ closePc["close_session"] = "done"

\* a step never takes the session from not RUNNING back to RUNNING
NeverRunningAgain == [][~is_alive => ~is_alive']_vars

\* C22: a session that is not RUNNING (is_alive() false, by process exit or
\* by close()) never becomes RUNNING again, and an input write or a resize
\* made on it while it is in the registry never succeeds.
C22_NotRunningIsTerminal ==
  /\ NeverRunningAgain
  /\ [](last.op \in {"http_input", "http_resize", "grpc_resize"}
         /\ last.found /\ ~last.alive => last.result # "ok")

\* close() call k sends SIGKILL in this step (inside terminate(True), or by
\* kill(9) of line 150)
SendsForced(k) ==
  closePc'[k] \in {"forcing", "killing"} /\ closePc[k] \notin {"forcing", "killing"}

\* a forced kill is sent only to a process that is still alive and after the
\* graceful request
ForcedAfterGraceful ==
  [][\A k \in Closers : SendsForced(k) => ProcIsAlive /\ signalled # "no"]_vars

\* C23: close() sends the forced kill only after the graceful request and
\* only when the process is still alive after the ten liveness checks of its
\* poll loop.
C23_ForceOnlyAfterPolls ==
  [][\A k \in Closers :
       SendsForced(k) => /\ ProcIsAlive
                         /\ signalled # "no"
                         /\ closePolls[k] = ClosePolls]_vars

\* SpecCloseRun: one session run closed through close_session; the event
\* loop runs the pump task and the closing task whenever they can take a step
NextCloseRun ==
  \/ Process
  \/ Pump
  \/ CloseBy({"close_session"})

SpecCloseRun ==
  /\ Init
  /\ [][NextCloseRun]_vars
  /\ WF_vars(Pump)
  /\ WF_vars(CloseBy({"close_session"}))

\* a close() that was called returns
CloseReturns ==
  \A k \in Closers : (closePc[k] \notin {"idle", "snap"}) ~> (closePc[k] \in {"done", "cleared"})

\* the poll loop of close() makes at most ten liveness checks
PollsBounded == \A k \in Closers : closePolls[k] <= ClosePolls

\* C24: close() returns whether or not the process dies, after at most ten
\* liveness checks of its poll loop and at most one forced kill: when it sends
\* kill(9) it has not sent a forced kill before.
C24_CloseTerminates ==
  /\ CloseReturns
  /\ []PollsBounded
  /\ [][closePc'["close_session"] = "killing" /\ closePc["close_session"] # "killing"
          => signalled # "forced"]_vars

\* C25: when close() has returned, exit_code is set: it is the exit status
\* of the process, or the sentinel when the session has no process handle.
C25_CloseRecordsExitCode ==
  \A k \in Closers :
    closePc[k] \in {"done", "cleared"} =>
      /\ exit_code # None
      /\ exit_code = (IF procState = "none" THEN Some(Sentinel) ELSE procStatus)

\* some close() of the session has returned
Closed == \E k \in Closers : closePc[k] \in {"done", "cleared"}

\* C26: once a close() has returned, no step changes output_buffer or
\* output_seq.
C26_NoOutputAfterClose ==
  [][Closed => UNCHANGED <<output_buffer, output_seq>>]_vars

\* C26 witness: close() has returned after it cancelled the pump task in a
\* read, with output of the shell still unread
C26_Witness ==
  /\ Closed
  /\ pumpPc = "cancelled"
  /\ pending # <<>>
  /\ output_seq > 0

\* SpecPump: one session run from its start to the end of its pump loop, with
\* every outcome of a read, a shell that exits or is killed from outside,
\* and a polling client
NextPump ==
  \/ \E ch \in Chunks : ProcWrite(ch)
  \/ \E c \in ExitCodes : ProcExit(c)
  \/ ProcSignalled
  \/ ProcDie
  \/ Pump
  \/ PumpOSError
  \/ PumpReadError
  \/ Poll(0)

SpecPump == Init /\ [][NextPump]_vars

\* C27: a step in which the pump loop stops on EOF or on an OSError of the
\* read leaves the session EXITED: not running, is_alive() false, and
\* exit_code set to the exit status of the process.
C27_ReadEndMeansExited ==
  [][(PumpEOF \/ PumpOSError)
       => /\ ~running'
          /\ ~is_alive'
          /\ exit_code' # None
          /\ exit_code' = procStatus']_vars

\* C28: a read timeout changes nothing of the session and the loop goes on;
\* every other failure of the read stops the loop and marks the session as
\* exited, and no adapter call is answered with it.
C28_ReadFailureHandling ==
  [][/\ PumpTimeout => /\ pumpPc' = "check"
                       /\ UNCHANGED <<output_buffer, output_seq, last_activity,
                                      running, exit_code, polls, last>>
     /\ (PumpEOF \/ PumpOSError \/ PumpReadError)
          => /\ pumpPc' = "done"
             /\ ~running'
             /\ UNCHANGED <<polls, last>>]_vars

\* C29: an input or resize frame sent on a bidirectional stream to a running
\* session is applied to the session (write_input or resize is called and
\* succeeds) and the stream stays open for output frames.
C29_StreamAppliesFrames ==
  (last.op \in {"stream_input", "stream_resize"} /\ last.found /\ last.alive)
    => last.result = "ok"

\* SpecCalls: one session run with input and resize requests that may be in
\* flight together
NextCalls ==
  \/ \E c \in ExitCodes : ProcExit(c)
  \/ ProcDie
  \/ PumpCheck
  \/ PumpTimeout
  \/ PumpEOF
  \/ \E d \in Dims : IssueCall("input", d)
  \/ \E d \in Dims : IssueCall("resize", d)
  \/ \E c \in inp.flying : ApplyCall(c)

SpecCalls == Init /\ [][NextCalls]_vars

\* C30: the input writes and resizes of a session reach the terminal process
\* in the order in which the calls were issued, and when none is in flight the
\* pty has the size the session records.
C30_CallsAppliedInOrder ==
  /\ \A i, j \in 1..Len(inp.applied) : i < j => inp.applied[i] < inp.applied[j]
  /\ inp.flying = {} => inp.winsize = dims

\* ------------------------------------------------------------------ C31..C39
\* faulty variant: start() does not look at _running
AlreadyRunningNever == FALSE

\* line 38: if self._running: return
AlreadyRunning == running

\* the pump task of the session has not ended
LivePump == pumpPc \in {"check", "read", "retry"}

\* PTYSession.start() called on the session: nothing when it is running
\* (lines 38-39); else pexpect.spawn (spawned tells whether it succeeded; its
\* error leaves start() before any assignment), _running = True and a new
\* pump task (lines 47-57).  self.process and self._output_task then refer to
\* the new process and the new task
Start(spawned) ==
  /\ starts < MaxStarts
  /\ starts' = starts + 1
  /\ IF AlreadyRunning
     THEN /\ last' = [op |-> "start", result |-> "already_running"]
          /\ UNCHANGED <<running, procVars, pumpPc>>
     ELSE IF ~spawned
     THEN /\ last' = [op |-> "start", result |-> "spawn_error"]
          /\ UNCHANGED <<running, procVars, pumpPc>>
     ELSE /\ last' = [op |-> "start", result |-> "started"]
          /\ running' = TRUE
          /\ procState' = "running"
          /\ procStatus' = None
          /\ terminated' = FALSE
          /\ signalled' = "no"
          /\ pending' = <<>>
          /\ pumpPc' = "check"
  /\ UNCHANGED <<output_buffer, output_seq, exit_code, dims, last_activity,
                 closePc, closePolls, regVars, now, inp, mgrVars,
                 allOut, readerVars, sseVars, polls>>

\* SpecStart: one session run with start() called on it again, output, a
\* chained poll client, input, resize and status calls, and close_session (an
\* explicit close or the reaper)
NextStart ==
  \/ \E spawned \in BOOLEAN : Start(spawned)
  \/ ProcWrite(<<"x">>)
  \/ ProcExit(0)
  \/ ProcKilled
  \/ ProcDie
  \/ Pump
  \/ CloseBy({"close_session"})
  \/ ReaderPoll
  \/ HttpInput(TRUE)
  \/ HttpResize(<<40, 120>>, TRUE)
  \/ HttpStatus

SpecStart == Init /\ [][NextStart]_vars

\* C31: start() creates a pump task only when the session is not running,
\* and then no pump task of the session is live; on a running session it
\* changes nothing.  output_buffer and output_seq change only in the append
\* of the pump loop: no adapter call, no stream, no close() and no start()
\* changes them.
C31_SinglePumpSingleWriter ==
  /\ [][(\E spawned \in BOOLEAN : Start(spawned))
          => /\ running => UNCHANGED <<sessionVars, procVars, taskVars>>
             /\ pumpPc' # pumpPc \/ running' # running => ~running /\ ~LivePump]_vars
  /\ [][<<output_buffer, output_seq>>' # <<output_buffer, output_seq>>
          => PumpData]_vars

\* C31 witness: start() was called on the running session while its pump
\* task was in a read, after output was appended and read by the poll client
C31_Witness ==
  /\ last.op = "start"
  /\ last.result = "already_running"
  /\ pumpPc = "read"
  /\ output_seq > 0
  /\ rdCursor > 0
  /\ is_alive

\* an input write or a resize to 40x120 that succeeds or fails, through the
\* HTTP and the gRPC adapter
InputOrResize ==
  \/ \E sent \in BOOLEAN : HttpInput(sent)
  \/ \E set \in BOOLEAN : HttpResize(<<40, 120>>, set)
  \/ \E set \in BOOLEAN : GrpcResize(<<40, 120>>, set)

\* SpecActivity: one session run with a clock, output, input and resize
\* calls that succeed or fail, and the reads: polls, status, an SSE subscriber
NextActivity ==
  \/ Tick
  \/ ProcWrite(<<"x">>)
  \/ ProcExit(0)
  \/ ProcDie
  \/ Pump
  \/ InputOrResize
  \/ HttpStatus
  \/ ReaderPoll
  \/ SseSubscribe
  \/ SseStep

SpecActivity == Init /\ [][NextActivity]_vars

\* C32: last_activity never decreases; a step that appends output, and an
\* input write or a resize that succeeds, set it to the current time; no
\* other step (a poll, a status call, a step of a stream, the process, the
\* clock) changes it.
C32_ActivityAdvancesOnUse ==
  /\ [](last_activity <= now)
  /\ [][last_activity' >= last_activity]_vars
  /\ [][PumpData => last_activity' = now']_vars
  /\ [][InputOrResize /\ last'.result = "ok" => last_activity' = now']_vars
  /\ [][last_activity' # last_activity
          => PumpData \/ (InputOrResize /\ last'.result = "ok")]_vars

\* C32 witness: the session was used at time 0 only; since then the clock
\* advanced twice while a poll client, a status call and an SSE subscriber
\* read from it, and a resize has now succeeded
C32_Witness ==
  /\ now = MaxNow
  /\ last_activity = now
  /\ output_seq > 0
  /\ rdCursor > 0
  /\ ssePc = "loop"
  /\ sseText # <<>>
  /\ last.op = "http_resize"
  /\ last.result = "ok"

\* SpecLife: one session run from its start to its end: a shell that prints,
\* exits or is killed, every outcome of a read of the pump loop, and close()
\* through close_session and through stop(), in any order and concurrently
NextLife ==
  \/ Process
  \/ ProcSignalled
  \/ Pump
  \/ PumpOSError
  \/ PumpReadError
  \/ CloseBy(Closers)
  \/ StopSnapshot
  \/ StopClear

SpecLife == Init /\ [][NextLife]_vars

\* C33: a session that is RUNNING (is_alive() true) has no exit_code: an
\* exit_code is set only when _running is cleared and the process has been
\* reaped.
C33_RunningHasNoExitCode ==
  /\ is_alive => exit_code = None
  /\ exit_code # None => /\ ~running
                         /\ terminated
                         /\ procState = "dead"

\* C33 witness: the shell has exited and is not yet reaped, the pump loop
\* has ended on a read error, and the session still counts as running with
\* no exit code
C33_Witness ==
  /\ is_alive
  /\ exit_code = None
  /\ procState = "closing"
  /\ procStatus # None
  /\ pumpPc = "done"
  /\ output_seq > 0

\* C34: every session that was created and is no longer in the registry had
\* close() called on it, by close_session (an adapter or the reaper) or by
\* stop().
C34_RemovedOnlyByTeardown ==
  \A id \in DOMAIN sess \ sessions : sess[id].closes >= 1 \/ sess[id].stopped

\* what pexpect.spawn can do in start(): "shell": the shell runs; "error":
\* spawn raises (the shell is not found, no pty, fork or exec fails);
\* "no_shell": the forked child fails before exec in a way ptyprocess does not
\* report (os.chdir(cwd) for a cwd that does not exist is outside its error
\* channel): the child ends without a shell and spawn returns a handle as if
\* it had succeeded
SpawnOutcomes == {"shell", "error", "no_shell"}

\* PTYManager.create_session without user_id (as both adapters call it) for
\* the session modelled in full, lines 68-71: PTYSession(), then start().
\* When spawn raises, the error leaves start() before _running is set and
\* the pump task is created, and create_session before line 70 (the adapter
\* answers HTTP 500 / gRPC INTERNAL); else the session is started and put
\* into the dict
CreateSession(spawn) ==
  /\ Sid \notin DOMAIN owner
  /\ IF spawn = "error"
     THEN /\ last' = [op |-> "create", user |-> NoUser, result |-> "spawn_error",
                      spawn |-> spawn]
          /\ UNCHANGED <<running, procVars, pumpPc, sessions, owner>>
     ELSE /\ last' = [op |-> "create", user |-> NoUser, result |-> "created",
                      spawn |-> spawn]
          /\ running' = TRUE
          /\ IF spawn = "shell"
             THEN procState' = "running" /\ UNCHANGED procStatus
             ELSE procState' = "closing" /\ \E c \in ExitCodes : procStatus' = Some(c)
          /\ pumpPc' = "check"
          /\ sessions' = sessions \cup {Sid}
          /\ owner' = owner @@ (Sid :> NoUser)
          /\ UNCHANGED <<terminated, signalled, pending>>
  /\ UNCHANGED <<output_buffer, output_seq, exit_code, dims, last_activity,
                 closePc, closePolls, now, inp, starts, mgrVars,
                 allOut, readerVars, sseVars, polls>>

\* SpecCreate: the registry from its construction on: create calls whose
\* spawn succeeds or fails, for the session modelled in full and for another
\* one, then the run of the session, closed through close_session
NextCreate ==
  \/ \E spawn \in SpawnOutcomes : CreateSession(spawn)
  \/ \E spawned \in BOOLEAN : RegCreate(NoUser, <<"b", "b">>, spawned)
  \/ \E ch \in Chunks : ProcWrite(ch)
  \/ \E c \in ExitCodes : ProcExit(c)
  \/ ProcKilled
  \/ ProcDie
  \/ Pump
  \/ CloseBy({"close_session"})

SpecCreate == InitReg /\ [][NextCreate]_vars

\* C35: a create call in which the spawn of the shell fails is answered with
\* the error and changes nothing: no session is added to the registry, and
\* the session gets no process handle and no pump task.
C35_SpawnFailureLeavesNothing ==
  [][(\E spawn \in SpawnOutcomes : CreateSession(spawn)) /\ last'.spawn # "shell"
       => /\ last'.result = "spawn_error"
          /\ UNCHANGED <<sessionVars, procVars, taskVars, regVars, mgrVars>>]_vars

\* SpecStream: one session run, closed through close_session (an explicit
\* close or the reaper) or ended by its shell, with an SSE subscriber that may
\* disconnect; while the peer is connected the server resumes the generator
\* after each of its sleeps
NextStream ==
  \/ Process
  \/ Pump
  \/ CloseBy({"close_session"})
  \/ SseSubscribe
  \/ SseStep
  \/ SseDisconnect

SpecStream == Init /\ [][NextStream]_vars /\ WF_vars(SseStep)

\* C36: an SSE stream whose peer is connected ends only in a state in which
\* the session is not alive, and it ends with a final event; once the session
\* is not alive, a stream that is open eventually emits its final event and
\* ends (unless the peer disconnects first).
C36_StreamEndsOnlyAtExit ==
  /\ [][ssePc = "loop" /\ ssePc' = "done"
          => /\ ~is_alive
             /\ Len(sseFinal') = Len(sseFinal) + 1]_vars
  /\ [][ssePc = "loop" /\ ssePc' # "loop" /\ is_alive => ssePc' = "gone"]_vars
  /\ (ssePc = "loop" /\ ~is_alive)
       ~> (ssePc = "gone" \/ (ssePc = "done" /\ Len(sseFinal) = 1))

\* C36 witness: the stream was attached to the running session, delivered
\* output, and ended with its final event after close_session closed the
\* session
C36_Witness ==
  /\ ssePc = "done"
  /\ sseLive
  /\ sseText # <<>>
  /\ Len(sseFinal) = 1
  /\ closePc["close_session"] = "done"
  /\ Sid \notin sessions

\* C37: whenever the reaper removes and closes a session, that session is at
\* that moment idle past the timeout or not alive: activity on a listed
\* session between the pass's scan and its close prevents the close.
C37_ReaperRechecksAtClose ==
  [][(ReaperPass \/ \E ok \in BOOLEAN : ReaperCloseReturn(ok))
       => \A id \in sessions \ sessions' :
            sess[id].act < now - SessionTimeout \/ ~sess[id].alive]_vars

\* C38: what the shell wrote before it exited is eventually read and appended
\* to the buffer: the pump loop never ends while written output is unread.
C38_OutputBeforeExitAppended ==
  /\ [](pumpPc = "done" => pending = <<>>)
  /\ (pending # <<>>) ~> (pending = <<>>)

\* C39: a resize call that is answered with an error leaves the session's
\* rows, cols and last_activity as they were.
C39_FailedResizeChangesNothing ==
  [][(\E d \in Dims, set \in BOOLEAN : HttpResize(d, set) \/ GrpcResize(d, set))
       /\ last'.result # "ok"
       => UNCHANGED <<dims, last_activity>>]_vars

====
